---- MODULE Spec2Model ----
(***************************************************************************)
(* outagemock: the ramp-controlled resource actuators (CPU, memory, file)  *)
(* and their controller (main, Start, Stop, Cleanup).                      *)
(*                                                                         *)
(* Goroutines are processes with a program counter each.  Time is a        *)
(* discrete clock `now`; one unit is much longer than any ticker period,   *)
(* so a ticker case of a select may be taken at any moment.                *)
(***************************************************************************)
EXTENDS Integers, Sequences, FiniteSets, TLC

VARIABLES
    config,        \* Config: cpu, mem, file, rampup, duration
    numCPU,        \* runtime.NumCPU()
    now,           \* wall clock
    rampupStart,   \* rm.rampupStart
    ctxDone,       \* rm.ctx is cancelled (ctx.Done() is closed)
    cancelCause,   \* what fired the context first: none, timeout, stop, cleanup
    wg,            \* rm.wg counter
    panicked,      \* a goroutine panicked: the process is gone
    pcMain,        \* main(): parse, validate, start, select, cleanup, exited
    once,          \* rm.cleanup (sync.Once): fresh, running, done
    pcClean,       \* per Cleanup() caller: idle, cancel, wait, close, remove, drop, returned
    bodyRuns,      \* how many times the function given to cleanup.Do started
    removeCalls,   \* how many times Cleanup called os.Remove
    rmFile,        \* rm.file: nil, open, closed
    fileExists,    \* a file exists at rm.filePath
    memDropped,    \* Cleanup set rm.memory = nil
    pcMemCtl,      \* consumeMemory: idle, spawn, select, exited
    ctlIdx,        \* consumeMemory: loop index i
    ctlTargetMB,   \* consumeMemory: currentMemoryMB of the last tick
    totalActualMB, \* consumeMemory: totalActualMB
    targetChans,   \* targetChans[i]: buffered (capacity 1) content
    targetClosed,  \* targetChans[i] is closed
    incLen,        \* number of increments queued in incrementChan
    incClosed,     \* incrementChan is closed
    pcMemW,        \* memoryWorker i: none, select, exited
    currentTargetMB, \* memoryWorker i: currentTargetMB
    blocks,        \* memoryWorker i: len(area.blocks)
    curPos,        \* memoryWorker i: area.curPos
    pcFile,        \* consumeFile: idle, entry, select, exited
    writtenBytes,  \* consumeFile: writtenBytes
    pcCpu,         \* consumeCPU: idle, entry, spawn, exited
    cpuIdx,        \* consumeCPU: loop index i
    pcCpuW,        \* cpuWorker i: none, select, exited
    workDuration,  \* cpuWorker i: workDuration, in ms
    sleepDuration, \* cpuWorker i: sleepDuration, in ms
    usage,         \* the ramp functions' last results, and the elapsed time they saw
    procExit,      \* how the process ended early: none, usage (exit 2), fatal (exit 1), killed
    fileVariant,   \* which consumeFile is built in: file.go:28, file.go:253, Makefile:66
    fileErr,       \* the file actuator's last failure: none, create, unlink, write, sync, close
    fsize,         \* the -fsize argument and what flag.Parse made of it
    memoryChan,    \* consumeMemory with one shared channel: the buffered targets, oldest first
    memoryChanClosed, \* memoryChan is closed
    lastAllocatedMB,  \* consumeMemory with one shared channel: lastAllocatedMB
    pcPageW,       \* memoryWorker i on the shared channel: none, select, exited
    pageTargetMB,  \* memoryWorker i on the shared channel: currentTargetMB
    memoryPages    \* memoryWorker i on the shared channel: len(memoryPages)

vars == << config, numCPU, now, rampupStart, ctxDone, cancelCause, wg, panicked,
           pcMain, once, pcClean, bodyRuns, removeCalls, rmFile, fileExists,
           memDropped, pcMemCtl, ctlIdx, ctlTargetMB, totalActualMB, targetChans,
           targetClosed, incLen, incClosed, pcMemW, currentTargetMB, blocks,
           curPos, pcFile, writtenBytes, pcCpu, cpuIdx, pcCpuW, workDuration,
           sleepDuration, usage, procExit, fileVariant, fileErr, fsize,
           memoryChan, memoryChanClosed, lastAllocatedMB, pcPageW,
           pageTargetMB, memoryPages >>

(***************************************************************************)
(* Bounds of the model.                                                    *)
(***************************************************************************)
NumCPU == 1          \* cores reported by runtime.NumCPU() in the full model
MaxTime == 2         \* the clock stops advancing here
MaxMemoryMB == 1     \* largest configured memory in the full model
MaxFileMB == 1       \* largest configured file size in the full model
MaxExtraCalls == 1   \* Cleanup() callers besides main
MantissaBits == 9    \* significand width of the modelled floating point
MaxRampTime == 5     \* largest rampup time of the ramp model
MaxRampValue == 7    \* largest configured value of the ramp model
MaxWorkers == 4      \* largest worker count of the distribution model
MemCores == 2        \* cores of the memory model
MaxMemMB == 3        \* largest configured memory of the memory model
MaxDistMB == 9       \* largest controller-level target of the distribution model
MaxFileSpecMB == 12  \* largest configured file size of the file model
MaxArgLen == 4       \* longest -fsize argument of the parsing model
MaxAggExtraMB == 1   \* memory beyond the increment buffer in the aggregation model
MaxSharedMB == 2     \* largest configured memory on the shared channel

(***************************************************************************)
(* Program constants.                                                      *)
(***************************************************************************)
MiB == 1048576
IncBufPerGoroutine == 100
GoroutinesPerCPU == 10   \* numGoroutines := runtime.NumCPU() * 10
PageSize == 4096         \* pageSize := 4 * 1024
AccessDivisor == 100
MaxWriteBuffers == 10

None == -1

\* the float64 NaN as a value of config.cpu; the other values are integers
NaN == -1000

(***************************************************************************)
(* float64 arithmetic.  A float is [m, e] with value m * 2^e, rounded to   *)
(* MantissaBits significant bits, nearest-even, as the hardware does.      *)
(***************************************************************************)
RECURSIVE Pow2(_)
Pow2(n) == IF n <= 0 THEN 1 ELSE 2 * Pow2(n - 1)

\* round(n / d) to the nearest integer, ties to even (n >= 0, d > 0)
RoundHalfEven(n, d) ==
    LET q == n \div d
        r == n % d
    IN  IF 2 * r < d THEN q
        ELSE IF 2 * r > d THEN q + 1
        ELSE IF q % 2 = 0 THEN q ELSE q + 1

\* number of bits of n > 0
RECURSIVE BitLen(_)
BitLen(n) == IF n <= 0 THEN 0 ELSE 1 + BitLen(n \div 2)

\* round the exact value m * 2^e to MantissaBits bits (the arguments are
\* bound as values first, so that each is evaluated once)
FloatRound(m, e) ==
    LET Rounded(mv, ev) ==
            LET t == BitLen(mv) - MantissaBits
            IN  IF t <= 0 THEN [m |-> mv, e |-> ev]
                ELSE [m |-> RoundHalfEven(mv, Pow2(t)), e |-> ev + t]
    IN  CHOOSE f \in {Rounded(mv, ev) : mv \in {m}, ev \in {e}} : TRUE

FloatOfInt(n) == FloatRound(n, 0)

\* float64(a) / float64(b), for a >= 0, b > 0
FloatDiv(a, b) ==
    LET fa == FloatOfInt(a)
        fb == FloatOfInt(b)
        \* scale the dividend so that the quotient has spare bits to round
        s == MantissaBits + 2 + BitLen(fb.m)
        num == fa.m * Pow2(s)
        q == num \div fb.m
        exact == (num % fb.m) = 0
        \* a sticky bit keeps an inexact quotient off the tie
        qs == IF exact THEN 2 * q ELSE 2 * q + 1
    IN  IF a = 0 THEN [m |-> 0, e |-> 0]
        ELSE FloatRound(qs, fa.e - fb.e - s - 1)

\* f * float64(c), for c >= 0
FloatMulInt(f, c) ==
    LET fc == FloatOfInt(c)
    IN  FloatRound(f.m * fc.m, f.e + fc.e)

\* f * g
FloatMul(f, g) == FloatRound(f.m * g.m, f.e + g.e)

\* int64(f), truncation toward zero (f >= 0)
FloatToInt(f) ==
    CHOOSE n \in {IF fv.e >= 0 THEN fv.m * Pow2(fv.e)
                                ELSE fv.m \div Pow2(0 - fv.e) : fv \in {f}} : TRUE

\* f <= g, by comparing the exact values
FloatLeq(f, g) ==
    \E fv \in {f}, gv \in {g} :
        LET k == IF fv.e < gv.e THEN fv.e ELSE gv.e
        IN  fv.m * Pow2(fv.e - k) <= gv.m * Pow2(gv.e - k)

FloatEq(f, g) == FloatLeq(f, g) /\ FloatLeq(g, f)

\* x < y, x > y and x <= y on float64: false as soon as one side is NaN
Lt(x, y) == x # NaN /\ y # NaN /\ x < y
Gt(x, y) == x # NaN /\ y # NaN /\ x > y
Le(x, y) == x # NaN /\ y # NaN /\ x <= y

(***************************************************************************)
(* The ramp: current target of each resource after `elapsed` time.        *)
(***************************************************************************)
\* time.Since(rm.rampupStart)
Elapsed == now - rampupStart

\* main.go: progress := float64(elapsed) / float64(rm.config.RampupTime)
Progress(cfg, elapsed) == FloatDiv(elapsed, cfg.rampup)

RampDone(cfg, elapsed) == cfg.rampup <= 0 \/ elapsed >= cfg.rampup

\* a variant that forgets the clamp at the end of the ramp
getCurrentResourceUsageNoClamp(cfg, elapsed) ==
    IF cfg.rampup <= 0
    THEN [cpu |-> FloatOfInt(cfg.cpu), mem |-> cfg.mem, file |-> cfg.file]
    ELSE LET progress == Progress(cfg, elapsed)
         IN  [cpu  |-> FloatMulInt(progress, cfg.cpu),
              mem  |-> FloatToInt(FloatMulInt(progress, cfg.mem)),
              file |-> FloatToInt(FloatMulInt(progress, cfg.file))]

\* a variant that interpolates downwards from the configured value
getCurrentResourceUsageInverted(cfg, elapsed) ==
    IF RampDone(cfg, elapsed)
    THEN [cpu |-> FloatOfInt(cfg.cpu), mem |-> cfg.mem, file |-> cfg.file]
    ELSE LET progress == FloatDiv(cfg.rampup - elapsed, cfg.rampup)
         IN  [cpu  |-> FloatMulInt(progress, cfg.cpu),
              mem  |-> FloatToInt(FloatMulInt(progress, cfg.mem)),
              file |-> FloatToInt(FloatMulInt(progress, cfg.file))]

getCurrentResourceUsage(cfg, elapsed) ==
    IF RampDone(cfg, elapsed)
    THEN [cpu |-> FloatOfInt(cfg.cpu), mem |-> cfg.mem, file |-> cfg.file]
    ELSE LET progress == Progress(cfg, elapsed)
         IN  [cpu  |-> FloatMulInt(progress, cfg.cpu),
              mem  |-> FloatToInt(FloatMulInt(progress, cfg.mem)),
              file |-> FloatToInt(FloatMulInt(progress, cfg.file))]

getCurrentCPUUsage(cfg, elapsed) ==
    IF RampDone(cfg, elapsed)
    THEN FloatOfInt(cfg.cpu)
    ELSE FloatMulInt(Progress(cfg, elapsed), cfg.cpu)

getCurrentMemoryUsage(cfg, elapsed) ==
    IF RampDone(cfg, elapsed)
    THEN cfg.mem
    ELSE FloatToInt(FloatMulInt(Progress(cfg, elapsed), cfg.mem))

\* a file ramp that interpolates over the elapsed time of the tick before
getCurrentFileSizeUsageLagging(cfg, elapsed) ==
    IF RampDone(cfg, elapsed)
    THEN cfg.file
    ELSE FloatToInt(FloatMulInt(Progress(cfg, IF elapsed > 0 THEN elapsed - 1 ELSE 0),
                                cfg.file))

getCurrentFileSizeUsage(cfg, elapsed) ==
    IF RampDone(cfg, elapsed)
    THEN cfg.file
    ELSE FloatToInt(FloatMulInt(Progress(cfg, elapsed), cfg.file))

(***************************************************************************)
(* State after main() has validated the flags and built the ResourceMock. *)
(***************************************************************************)
Callers == 0 .. MaxExtraCalls      \* 0 is main, the others are further callers
Main == 0
Workers == 1 .. numCPU

Durations == {MaxTime - 1}
RampupTimes == {0, MaxTime}

Configs ==
    [cpu : {0, 50}, mem : {0, MaxMemoryMB}, file : {0, MaxFileMB},
     rampup : RampupTimes, duration : Durations]

NoUsage ==
    [all |-> [cpu |-> FloatOfInt(0), mem |-> 0, file |-> 0],
     cpuOnly |-> FloatOfInt(0), memOnly |-> 0, fileOnly |-> 0, at |-> None]

\* the three consumeFile of the repository
FileV1 == "file.go:28"
FileV3 == "file.go:253"
FileV4 == "Makefile:66"

NoFsize == [arg |-> << >>, mb |-> None, ok |-> FALSE]

\* pc is where main stands: parse (flag.Parse), validate, or start; onDisk
\* says whether a file may exist at the configured path before the run
InitOn(cfgs, cpus, variants, args, pc, onDisk) ==
    /\ config \in cfgs
    /\ numCPU \in cpus
    /\ fileVariant \in variants
    /\ fsize \in [arg : args, mb : {None}, ok : {FALSE}]
    /\ pcMain = pc
    /\ procExit = "none"
    /\ fileErr = "none"
    /\ now = 0
    /\ rampupStart = 0
    /\ ctxDone = FALSE
    /\ cancelCause = "none"
    /\ wg = 0
    /\ panicked = FALSE
    /\ once = "fresh"
    /\ pcClean = [c \in Callers |-> "idle"]
    /\ bodyRuns = 0
    /\ removeCalls = 0
    /\ rmFile = "nil"
    /\ fileExists \in onDisk
    /\ memDropped = FALSE
    /\ pcMemCtl = "idle"
    /\ ctlIdx = 0
    /\ ctlTargetMB = 0
    /\ totalActualMB = 0
    /\ targetChans = [i \in 1 .. numCPU |-> None]
    /\ targetClosed = [i \in 1 .. numCPU |-> FALSE]
    /\ incLen = 0
    /\ incClosed = FALSE
    /\ pcMemW = [i \in 1 .. numCPU |-> "none"]
    /\ currentTargetMB = [i \in 1 .. numCPU |-> 0]
    /\ blocks = [i \in 1 .. numCPU |-> 0]
    /\ curPos = [i \in 1 .. numCPU |-> 0]
    /\ pcFile = "idle"
    /\ writtenBytes = 0
    /\ pcCpu = "idle"
    /\ cpuIdx = 0
    /\ pcCpuW = [i \in 1 .. numCPU |-> "none"]
    /\ workDuration = [i \in 1 .. numCPU |-> 0]
    /\ sleepDuration = [i \in 1 .. numCPU |-> 0]
    /\ usage = NoUsage
    /\ memoryChan = << >>
    /\ memoryChanClosed = FALSE
    /\ lastAllocatedMB = 0
    /\ pcPageW = [i \in 1 .. numCPU * GoroutinesPerCPU |-> "none"]
    /\ pageTargetMB = [i \in 1 .. numCPU * GoroutinesPerCPU |-> 0]
    /\ memoryPages = [i \in 1 .. numCPU * GoroutinesPerCPU |-> 0]

\* a run that finds no file at the configured path
InitAt(cfgs, cpus, variants, args, pc) ==
    InitOn(cfgs, cpus, variants, args, pc, {FALSE})

\* main has parsed and validated its flags; consumeFile is file.go:28-103
InitWith(cfgs, cpus) == InitAt(cfgs, cpus, {FileV1}, {<< >>}, "start")

Init == InitWith(Configs, {NumCPU})

\* the process runs: main has not returned, no goroutine has panicked, and
\* nothing has called os.Exit or killed it
Alive == ~panicked /\ procExit = "none" /\ pcMain # "exited"

\* context cancellation: closes ctx.Done() once, later calls change nothing
CancelReset(cause) ==
    /\ ctxDone' = ~ctxDone
    /\ cancelCause' = cause

Cancel(cause) ==
    /\ ctxDone' = TRUE
    /\ cancelCause' = IF ctxDone THEN cancelCause ELSE cause

\* log.Fatal, log.Fatalf: the message, then os.Exit(1); no deferred call and
\* no Cleanup() runs
Fatalf == procExit' = "fatal"

mainVars == << pcMain >>
cleanVars == << once, pcClean, bodyRuns, removeCalls, memDropped >>
fileVars == << pcFile, writtenBytes >>
diskVars == << rmFile, fileExists >>
memCtlVars == << pcMemCtl, ctlIdx, ctlTargetMB, totalActualMB >>
chanVars == << targetChans, targetClosed, incLen, incClosed >>
memWVars == << pcMemW, currentTargetMB, blocks, curPos >>
cpuVars == << pcCpu, cpuIdx, pcCpuW, workDuration, sleepDuration >>
envVars == << config, numCPU, usage >>
procVars == << procExit, fileVariant, fileErr, fsize >>
pageVars == << memoryChan, memoryChanClosed, lastAllocatedMB, pcPageW,
               pageTargetMB, memoryPages >>
ctxVars == << ctxDone, cancelCause >>

(***************************************************************************)
(* The clock, and the timer of context.WithTimeout(config.Duration).       *)
(***************************************************************************)
TimePasses ==
    /\ Alive
    /\ now < MaxTime
    /\ now' = now + 1
    /\ IF now + 1 >= config.duration
       THEN Cancel("timeout")
       ELSE UNCHANGED ctxVars
    /\ UNCHANGED << rampupStart, wg, panicked, mainVars, cleanVars, fileVars,
                    diskVars, memCtlVars, chanVars, memWVars, cpuVars, envVars, procVars, pageVars >>

(***************************************************************************)
(* main                                                                    *)
(***************************************************************************)
\* the characters of a -fsize argument in the model, and the digits
ArgChars == {"0", "1", "5", ".", "G", "M", "X"}
DigitChars == << "0", "1", "2", "3", "4", "5", "6", "7", "8", "9" >>

DigitValue(c) == (CHOOSE k \in 1 .. Len(DigitChars) : DigitChars[k] = c) - 1

IsDigit(c) == \E k \in 1 .. Len(DigitChars) : DigitChars[k] = c

\* the digits of s in `base`, or None for a syntax error
RECURSIVE ParseDigits(_, _, _)
ParseDigits(s, base, acc) ==
    IF s = << >> THEN acc
    ELSE IF ~IsDigit(Head(s)) \/ DigitValue(Head(s)) >= base THEN None
    ELSE ParseDigits(Tail(s), base, acc * base + DigitValue(Head(s)))

\* strconv.ParseInt(s, 0, 64), which flag.Int64Var uses: base 10, or base 16
\* after 0x / 0X, or base 8 after another leading 0; None for a syntax error
ParseInt(s) ==
    IF s = << >> THEN None
    ELSE IF Head(s) = "0"
    THEN IF Len(s) >= 3 /\ s[2] = "X"
         THEN ParseDigits(SubSeq(s, 3, Len(s)), 16, 0)
         ELSE ParseDigits(Tail(s), 8, 0)
    ELSE ParseDigits(s, 10, 0)

\* flag.Parse() on -fsize: the value, or the usage message and os.Exit(2)
ParseFsize ==
    /\ Alive
    /\ pcMain = "parse"
    /\ LET mb == ParseInt(fsize.arg)
       IN  IF mb = None
           THEN /\ procExit' = "usage"
                /\ fsize' = [fsize EXCEPT !.ok = FALSE]
                /\ UNCHANGED << config, pcMain >>
           ELSE /\ fsize' = [fsize EXCEPT !.mb = mb, !.ok = TRUE]
                /\ config' = [config EXCEPT !.file = mb]
                /\ pcMain' = "validate"
                /\ UNCHANGED procExit
    /\ UNCHANGED << now, rampupStart, ctxVars, wg, panicked, cleanVars, fileVars,
                    diskVars, memCtlVars, chanVars, memWVars, cpuVars, numCPU,
                    usage, fileVariant, pageVars, fileErr >>

\* the four checks of main, each ending in log.Fatal
ConfigValid(cfg) ==
    /\ ~(Lt(cfg.cpu, 0) \/ Gt(cfg.cpu, 100))
    /\ ~(cfg.mem < 0)
    /\ ~(cfg.file < 0)
    /\ ~(cfg.duration <= 0)

\* main validates the configuration: log.Fatal is the message and os.Exit(1)
Validate ==
    /\ Alive
    /\ pcMain = "validate"
    /\ IF ConfigValid(config)
       THEN pcMain' = "start" /\ UNCHANGED procExit
       ELSE Fatalf /\ UNCHANGED pcMain
    /\ UNCHANGED << now, rampupStart, ctxVars, wg, panicked, cleanVars, fileVars,
                    diskVars, memCtlVars, chanVars, memWVars, cpuVars, envVars,
                    fileVariant, pageVars, fileErr, fsize >>

\* a Start() that launches every actuator whatever its target
StartAlways ==
    /\ Alive
    /\ pcMain = "start"
    /\ rampupStart' = now
    /\ wg' = wg + 3
    /\ pcMemCtl' = "spawn"
    /\ pcFile' = "entry"
    /\ pcCpu' = "entry"
    /\ pcMain' = "select"
    /\ UNCHANGED << now, ctxVars, panicked, cleanVars, writtenBytes, diskVars,
                    ctlIdx, ctlTargetMB, totalActualMB, chanVars, memWVars,
                    cpuIdx, pcCpuW, workDuration, sleepDuration, envVars, procVars, pageVars >>

\* rm.Start()
Start ==
    /\ Alive
    /\ pcMain = "start"
    /\ rampupStart' = now
    /\ wg' = wg + (IF config.mem > 0 THEN 1 ELSE 0)
                + (IF config.file > 0 THEN 1 ELSE 0)
                + (IF Gt(config.cpu, 0) THEN 1 ELSE 0)
    /\ pcMemCtl' = IF config.mem > 0 THEN "spawn" ELSE "idle"
    /\ pcFile' = IF config.file > 0 THEN "entry" ELSE "idle"
    /\ pcCpu' = IF Gt(config.cpu, 0) THEN "entry" ELSE "idle"
    /\ pcMain' = "select"
    /\ UNCHANGED << now, ctxVars, panicked, cleanVars, writtenBytes, diskVars,
                    ctlIdx, ctlTargetMB, totalActualMB, chanVars, memWVars,
                    cpuIdx, pcCpuW, workDuration, sleepDuration, envVars, procVars, pageVars >>

\* select: case <-ctx.Done()
MainCtxDone ==
    /\ Alive
    /\ pcMain = "select"
    /\ ctxDone
    /\ pcMain' = "cleanup"
    /\ UNCHANGED << now, rampupStart, ctxVars, wg, panicked, cleanVars, fileVars,
                    diskVars, memCtlVars, chanVars, memWVars, cpuVars, envVars, procVars, pageVars >>

\* select: case sig := <-sigChan, then rm.Stop()
MainSignal ==
    /\ Alive
    /\ pcMain = "select"
    /\ Cancel("stop")
    /\ pcMain' = "cleanup"
    /\ UNCHANGED << now, rampupStart, wg, panicked, cleanVars, fileVars,
                    diskVars, memCtlVars, chanVars, memWVars, cpuVars, envVars, procVars, pageVars >>

\* main returns after rm.Cleanup(): the process exits
MainExit ==
    /\ Alive
    /\ pcMain = "cleanup"
    /\ pcClean[Main] = "returned"
    /\ pcMain' = "exited"
    /\ UNCHANGED << now, rampupStart, ctxVars, wg, panicked, cleanVars, fileVars,
                    diskVars, memCtlVars, chanVars, memWVars, cpuVars, envVars, procVars, pageVars >>

(***************************************************************************)
(* Cleanup(), by caller c.  sync.Once: the first caller runs the function, *)
(* a caller arriving while it runs waits for it, a later one returns.      *)
(***************************************************************************)
MayCall(c) ==
    IF c = Main THEN pcMain = "cleanup" ELSE ctxDone /\ pcMain # "start"

\* a Cleanup() without the sync.Once guard
CleanupEnterUnguarded(c) ==
    /\ Alive
    /\ pcClean[c] = "idle"
    /\ MayCall(c)
    /\ once' = "running"
    /\ bodyRuns' = bodyRuns + 1
    /\ pcClean' = [pcClean EXCEPT ![c] = "cancel"]
    /\ UNCHANGED << now, rampupStart, ctxVars, wg, panicked, mainVars,
                    removeCalls, memDropped, fileVars, diskVars, memCtlVars,
                    chanVars, memWVars, cpuVars, envVars, procVars, pageVars >>

\* rm.cleanup.Do(func() {...})
CleanupEnter(c) ==
    /\ Alive
    /\ pcClean[c] = "idle"
    /\ MayCall(c)
    /\ once # "running"
    /\ IF once = "fresh"
       THEN /\ once' = "running"
            /\ bodyRuns' = bodyRuns + 1
            /\ pcClean' = [pcClean EXCEPT ![c] = "cancel"]
       ELSE /\ pcClean' = [pcClean EXCEPT ![c] = "returned"]
            /\ UNCHANGED << once, bodyRuns >>
    /\ UNCHANGED << now, rampupStart, ctxVars, wg, panicked, mainVars,
                    removeCalls, memDropped, fileVars, diskVars, memCtlVars,
                    chanVars, memWVars, cpuVars, envVars, procVars, pageVars >>

\* rm.cancel()
CleanupCancel(c) ==
    /\ Alive
    /\ pcClean[c] = "cancel"
    /\ Cancel("cleanup")
    /\ pcClean' = [pcClean EXCEPT ![c] = "wait"]
    /\ UNCHANGED << now, rampupStart, wg, panicked, mainVars, once, bodyRuns,
                    removeCalls, memDropped, fileVars, diskVars, memCtlVars,
                    chanVars, memWVars, cpuVars, envVars, procVars, pageVars >>

\* rm.wg.Wait()
CleanupWait(c) ==
    /\ Alive
    /\ pcClean[c] = "wait"
    /\ wg = 0
    /\ pcClean' = [pcClean EXCEPT ![c] = "close"]
    /\ UNCHANGED << now, rampupStart, ctxVars, wg, panicked, mainVars, once,
                    bodyRuns, removeCalls, memDropped, fileVars, diskVars,
                    memCtlVars, chanVars, memWVars, cpuVars, envVars, procVars, pageVars >>

\* a Cleanup that gives up when the close fails
CleanupCloseAborts(c) ==
    /\ Alive
    /\ pcClean[c] = "close"
    /\ IF rmFile = "nil"
       THEN /\ pcClean' = [pcClean EXCEPT ![c] = "remove"]
            /\ UNCHANGED << rmFile, fileErr, once >>
       ELSE /\ rmFile' = "closed"
            /\ \E failed \in BOOLEAN :
                 IF failed
                 THEN /\ fileErr' = "close"
                      /\ once' = "done"
                      /\ pcClean' = [pcClean EXCEPT ![c] = "returned"]
                 ELSE /\ pcClean' = [pcClean EXCEPT ![c] = "remove"]
                      /\ UNCHANGED << fileErr, once >>
    /\ UNCHANGED << now, rampupStart, ctxVars, wg, panicked, mainVars,
                    bodyRuns, removeCalls, memDropped, fileVars, fileExists,
                    memCtlVars, chanVars, memWVars, cpuVars, envVars,
                    procExit, fileVariant, pageVars, fsize >>

\* if rm.file != nil { rm.file.Close() }: the descriptor is released whether
\* Close reports an error or not, and the error is dropped
CleanupClose(c) ==
    /\ Alive
    /\ pcClean[c] = "close"
    /\ IF rmFile = "nil"
       THEN UNCHANGED << rmFile, fileErr >>
       ELSE /\ rmFile' = "closed"
            /\ \E failed \in BOOLEAN :
                 fileErr' = IF failed THEN "close" ELSE fileErr
    /\ pcClean' = [pcClean EXCEPT ![c] = "remove"]
    /\ UNCHANGED << now, rampupStart, ctxVars, wg, panicked, mainVars, once,
                    bodyRuns, removeCalls, memDropped, fileVars, fileExists,
                    memCtlVars, chanVars, memWVars, cpuVars, envVars,
                    procExit, fileVariant, pageVars, fsize >>

\* if rm.filePath != "" { os.Remove(rm.filePath) }: with no file at the path
\* the call fails and changes nothing; its error is dropped
CleanupRemove(c) ==
    /\ Alive
    /\ pcClean[c] = "remove"
    /\ fileExists' = FALSE
    /\ removeCalls' = removeCalls + 1
    /\ pcClean' = [pcClean EXCEPT ![c] = "drop"]
    /\ UNCHANGED << now, rampupStart, ctxVars, wg, panicked, mainVars, once,
                    bodyRuns, memDropped, fileVars, rmFile, memCtlVars,
                    chanVars, memWVars, cpuVars, envVars, procVars, pageVars >>

\* rm.memory = nil; runtime.GC(); the function returns and Once is done
CleanupDrop(c) ==
    /\ Alive
    /\ pcClean[c] = "drop"
    /\ memDropped' = TRUE
    /\ once' = "done"
    /\ pcClean' = [pcClean EXCEPT ![c] = "returned"]
    /\ UNCHANGED << now, rampupStart, ctxVars, wg, panicked, mainVars,
                    bodyRuns, removeCalls, fileVars, diskVars, memCtlVars,
                    chanVars, memWVars, cpuVars, envVars, procVars, pageVars >>

(***************************************************************************)
(* consumeMemory: the memory controller                                    *)
(***************************************************************************)
\* the share of worker i (1-based; the code's index is i - 1) that puts the
\* remainder on one worker too many
WorkerTargetOffByOne(cur, n, i) ==
    (cur \div n) + (IF i - 1 <= cur % n THEN 1 ELSE 0)

\* memoryPerGoroutine, plus one for the first remainingMemory workers
WorkerTarget(cur, n, i) ==
    (cur \div n) + (IF i - 1 < cur % n THEN 1 ELSE 0)

IncChanCap == numCPU * IncBufPerGoroutine

\* for i := 0; i < numGoroutines; i++ { rm.wg.Add(1); go rm.memoryWorker(...) }
MemCtlSpawn ==
    /\ Alive
    /\ pcMemCtl = "spawn"
    /\ wg' = wg + 1
    /\ pcMemW' = [pcMemW EXCEPT ![ctlIdx + 1] = "select"]
    /\ IF ctlIdx + 1 = numCPU
       THEN pcMemCtl' = "select" /\ ctlIdx' = 0
       ELSE pcMemCtl' = "spawn" /\ ctlIdx' = ctlIdx + 1
    /\ UNCHANGED << now, rampupStart, ctxVars, panicked, mainVars, cleanVars,
                    fileVars, diskVars, ctlTargetMB, totalActualMB, chanVars,
                    currentTargetMB, blocks, curPos, cpuVars, envVars, procVars, pageVars >>

\* case <-rm.ctx.Done(): close every channel and return
MemCtlCancel ==
    /\ Alive
    /\ pcMemCtl = "select"
    /\ ctxDone
    /\ targetClosed' = [i \in Workers |-> TRUE]
    /\ incClosed' = TRUE
    /\ pcMemCtl' = "exited"
    /\ wg' = wg - 1
    /\ UNCHANGED << now, rampupStart, ctxVars, panicked, mainVars, cleanVars,
                    fileVars, diskVars, ctlIdx, ctlTargetMB, totalActualMB,
                    targetChans, incLen, memWVars, cpuVars, envVars, procVars, pageVars >>

\* a dispatch loop whose send replaces what a full slot holds
DispatchedOverwrite(chans, cur, k) ==
    [i \in Workers |->
        IF i < k THEN WorkerTarget(cur, numCPU, i) ELSE chans[i]]

\* the channels after the dispatch loop has run for the workers before k:
\* a send into an empty slot, nothing for a full one
Dispatched(chans, cur, k) ==
    [i \in Workers |->
        IF i < k /\ chans[i] = None THEN WorkerTarget(cur, numCPU, i) ELSE chans[i]]

\* where the dispatch loop may stop: past the last worker, or at a worker
\* whose select takes <-rm.ctx.Done(); a send that can proceed may win over
\* a cancelled context, a full slot never does
DispatchStops ==
    IF ~ctxDone THEN {numCPU + 1}
    ELSE {k \in 1 .. numCPU + 1 : \A i \in 1 .. k - 1 : targetChans[i] = None}

\* case <-ticker.C: currentMemoryMB := rm.getCurrentMemoryUsage(), then for
\* each worker select { case targetChans[i] <- target: case <-rm.ctx.Done():
\* return; default: }
MemCtlTick ==
    /\ Alive
    /\ pcMemCtl = "select"
    /\ LET cur == getCurrentMemoryUsage(config, Elapsed)
       IN  /\ ctlTargetMB' = cur
           /\ \E k \in DispatchStops :
                /\ targetChans' = Dispatched(targetChans, cur, k)
                /\ IF k <= numCPU
                   THEN pcMemCtl' = "exited" /\ wg' = wg - 1
                   ELSE pcMemCtl' = "select" /\ wg' = wg
    /\ UNCHANGED << now, rampupStart, ctxVars, panicked, mainVars, cleanVars,
                    fileVars, diskVars, ctlIdx, totalActualMB, targetClosed,
                    incLen, incClosed, memWVars, cpuVars, envVars, procVars, pageVars >>

\* case <-incrementChan: totalActualMB++
MemCtlIncrement ==
    /\ Alive
    /\ pcMemCtl = "select"
    /\ incLen > 0
    /\ incLen' = incLen - 1
    /\ totalActualMB' = totalActualMB + 1
    /\ UNCHANGED << now, rampupStart, ctxVars, wg, panicked, mainVars,
                    cleanVars, fileVars, diskVars, pcMemCtl, ctlIdx,
                    ctlTargetMB, targetChans, targetClosed, incClosed,
                    memWVars, cpuVars, envVars, procVars, pageVars >>

(***************************************************************************)
(* memoryWorker i                                                          *)
(***************************************************************************)
\* Area.Access: the cursor after one call, for n blocks
RECURSIVE AccessLoop(_, _, _)
AccessLoop(n, pos, k) ==
    IF k = 0 THEN pos
    ELSE AccessLoop(n, IF pos + 1 >= n THEN 0 ELSE pos + 1, k - 1)

AreaAccess(n, pos) ==
    IF n = 0 THEN pos
    ELSE AccessLoop(n, pos + 1, n \div AccessDivisor + 1)

\* the blocks the loop of Area.Access calls Iter() on, with k rounds to go
RECURSIVE AccessTouched(_, _, _)
AccessTouched(n, pos, k) ==
    IF k = 0 THEN {}
    ELSE LET p == IF pos + 1 >= n THEN 0 ELSE pos + 1
         IN  {p} \cup AccessTouched(n, p, k - 1)

\* the blocks one call of Area.Access touches
AreaTouched(n, pos) ==
    IF n = 0 THEN {}
    ELSE AccessTouched(n, pos + 1, n \div AccessDivisor + 1)

\* the blocks touched by `calls` calls of Area.Access in a row
RECURSIVE TouchedInCalls(_, _, _)
TouchedInCalls(n, pos, calls) ==
    IF calls = 0 THEN {}
    ELSE AreaTouched(n, pos) \cup TouchedInCalls(n, AreaAccess(n, pos), calls - 1)

\* case <-rm.ctx.Done(): return
MemWCancel(i) ==
    /\ Alive
    /\ pcMemW[i] = "select"
    /\ ctxDone
    /\ pcMemW' = [pcMemW EXCEPT ![i] = "exited"]
    /\ wg' = wg - 1
    /\ UNCHANGED << now, rampupStart, ctxVars, panicked, mainVars, cleanVars,
                    fileVars, diskVars, memCtlVars, chanVars, currentTargetMB,
                    blocks, curPos, cpuVars, envVars, procVars, pageVars >>

\* a worker that receives the new target and goes on with the one it holds
MemWTargetDiscards(i) ==
    /\ Alive
    /\ pcMemW[i] = "select"
    /\ targetChans[i] # None
    /\ targetChans' = [targetChans EXCEPT ![i] = None]
    /\ UNCHANGED << pcMemW, wg, currentTargetMB >>
    /\ UNCHANGED << now, rampupStart, ctxVars, panicked, mainVars, cleanVars,
                    fileVars, diskVars, memCtlVars, targetClosed, incLen,
                    incClosed, blocks, curPos, cpuVars, envVars, procVars, pageVars >>

\* a worker that reads the new target and leaves it in the slot
MemWTargetPeeks(i) ==
    /\ Alive
    /\ pcMemW[i] = "select"
    /\ targetChans[i] # None
    /\ currentTargetMB[i] # targetChans[i]
    /\ currentTargetMB' = [currentTargetMB EXCEPT ![i] = targetChans[i]]
    /\ UNCHANGED << pcMemW, wg, targetChans >>
    /\ UNCHANGED << now, rampupStart, ctxVars, panicked, mainVars, cleanVars,
                    fileVars, diskVars, memCtlVars, targetClosed, incLen,
                    incClosed, blocks, curPos, cpuVars, envVars, procVars, pageVars >>

\* a worker that adds the new target to the one it holds
MemWTargetAdds(i) ==
    /\ Alive
    /\ pcMemW[i] = "select"
    /\ targetChans[i] # None
    /\ currentTargetMB' = [currentTargetMB EXCEPT ![i] = @ + targetChans[i]]
    /\ targetChans' = [targetChans EXCEPT ![i] = None]
    /\ UNCHANGED << pcMemW, wg >>
    /\ UNCHANGED << now, rampupStart, ctxVars, panicked, mainVars, cleanVars,
                    fileVars, diskVars, memCtlVars, targetClosed, incLen,
                    incClosed, blocks, curPos, cpuVars, envVars, procVars, pageVars >>

\* case targetMB, ok := <-targetChan: a buffered value, or !ok once the
\* channel is closed and empty
MemWTarget(i) ==
    /\ Alive
    /\ pcMemW[i] = "select"
    /\ targetChans[i] # None \/ targetClosed[i]
    /\ IF targetChans[i] # None
       THEN /\ currentTargetMB' = [currentTargetMB EXCEPT ![i] = targetChans[i]]
            /\ targetChans' = [targetChans EXCEPT ![i] = None]
            /\ UNCHANGED << pcMemW, wg >>
       ELSE /\ pcMemW' = [pcMemW EXCEPT ![i] = "exited"]
            /\ wg' = wg - 1
            /\ UNCHANGED << currentTargetMB, targetChans >>
    /\ UNCHANGED << now, rampupStart, ctxVars, panicked, mainVars, cleanVars,
                    fileVars, diskVars, memCtlVars, targetClosed, incLen,
                    incClosed, blocks, curPos, cpuVars, envVars, procVars, pageVars >>

\* the cases of the increment select that can proceed; a send on a closed
\* channel proceeds by panicking
IncrementReady ==
    (IF incClosed THEN {"panic"} ELSE IF incLen < IncChanCap THEN {"send"} ELSE {})
        \cup (IF ctxDone THEN {"done"} ELSE {})

\* a tick that appends two blocks at once
MemWTickTwoBlocks(i) ==
    /\ Alive
    /\ pcMemW[i] = "select"
    /\ curPos' = [curPos EXCEPT ![i] = AreaAccess(blocks[i], curPos[i])]
    /\ IF currentTargetMB[i] > 0 /\ blocks[i] < currentTargetMB[i]
       THEN /\ blocks' = [blocks EXCEPT ![i] = @ + 2]
            /\ \E choice \in (IF IncrementReady = {} THEN {"default"}
                                                     ELSE IncrementReady) :
                 /\ incLen' = IF choice = "send" THEN incLen + 1 ELSE incLen
                 /\ panicked' = (choice = "panic")
                 /\ IF choice = "done"
                    THEN pcMemW' = [pcMemW EXCEPT ![i] = "exited"] /\ wg' = wg - 1
                    ELSE pcMemW' = [pcMemW EXCEPT ![i] = "select"] /\ wg' = wg
       ELSE /\ pcMemW' = [pcMemW EXCEPT ![i] = "select"]
            /\ UNCHANGED << blocks, incLen, panicked, wg >>
    /\ UNCHANGED << now, rampupStart, ctxVars, mainVars, cleanVars, fileVars,
                    diskVars, memCtlVars, targetChans, targetClosed, incClosed,
                    currentTargetMB, cpuVars, envVars, procVars, pageVars >>

\* a tick that still appends a block when the arena has reached the target
MemWTickOffByOne(i) ==
    /\ Alive
    /\ pcMemW[i] = "select"
    /\ curPos' = [curPos EXCEPT ![i] = AreaAccess(blocks[i], curPos[i])]
    /\ IF currentTargetMB[i] > 0 /\ blocks[i] <= currentTargetMB[i]
       THEN /\ blocks' = [blocks EXCEPT ![i] = @ + 1]
            /\ \E choice \in (IF IncrementReady = {} THEN {"default"}
                                                     ELSE IncrementReady) :
                 /\ incLen' = IF choice = "send" THEN incLen + 1 ELSE incLen
                 /\ panicked' = (choice = "panic")
                 /\ IF choice = "done"
                    THEN pcMemW' = [pcMemW EXCEPT ![i] = "exited"] /\ wg' = wg - 1
                    ELSE pcMemW' = [pcMemW EXCEPT ![i] = "select"] /\ wg' = wg
       ELSE /\ pcMemW' = [pcMemW EXCEPT ![i] = "select"]
            /\ UNCHANGED << blocks, incLen, panicked, wg >>
    /\ UNCHANGED << now, rampupStart, ctxVars, mainVars, cleanVars, fileVars,
                    diskVars, memCtlVars, targetChans, targetClosed, incClosed,
                    currentTargetMB, cpuVars, envVars, procVars, pageVars >>

\* case <-allocTicker.C: area.Access(); then one block more if below the
\* target, and its increment.  The handler is one step: what another
\* goroutine does while it runs is what it does just before it.
MemWTick(i) ==
    /\ Alive
    /\ pcMemW[i] = "select"
    /\ curPos' = [curPos EXCEPT ![i] = AreaAccess(blocks[i], curPos[i])]
    /\ IF currentTargetMB[i] > 0 /\ blocks[i] < currentTargetMB[i]
       THEN /\ blocks' = [blocks EXCEPT ![i] = @ + 1]
            /\ \E choice \in (IF IncrementReady = {} THEN {"default"}
                                                     ELSE IncrementReady) :
                 /\ incLen' = IF choice = "send" THEN incLen + 1 ELSE incLen
                 /\ panicked' = (choice = "panic")
                 /\ IF choice = "done"
                    THEN pcMemW' = [pcMemW EXCEPT ![i] = "exited"] /\ wg' = wg - 1
                    ELSE pcMemW' = [pcMemW EXCEPT ![i] = "select"] /\ wg' = wg
       ELSE /\ pcMemW' = [pcMemW EXCEPT ![i] = "select"]
            /\ UNCHANGED << blocks, incLen, panicked, wg >>
    /\ UNCHANGED << now, rampupStart, ctxVars, mainVars, cleanVars, fileVars,
                    diskVars, memCtlVars, targetChans, targetClosed, incClosed,
                    currentTargetMB, cpuVars, envVars, procVars, pageVars >>

(***************************************************************************)
(* consumeFile                                                             *)
(***************************************************************************)
\* a return that skips the deferred rm.wg.Done()
FileReturnsNoDone == pcFile' = "exited" /\ wg' = wg

\* return, and the deferred rm.wg.Done()
FileReturns == pcFile' = "exited" /\ wg' = wg - 1

\* os.Create(rm.filePath): the file, or an error; Makefile:84 then unlinks
\* the path and keeps the handle
FileCreate ==
    /\ Alive
    /\ pcFile = "entry"
    /\ IF config.file <= 0
       THEN /\ FileReturns
            /\ UNCHANGED << diskVars, fileErr, procExit >>
       ELSE \E created \in BOOLEAN :
              IF ~created
              THEN /\ FileReturns
                   /\ fileErr' = "create"
                   /\ UNCHANGED << diskVars, procExit >>
              ELSE /\ rmFile' = "open"
                   /\ IF fileVariant # FileV4
                      THEN /\ fileExists' = TRUE
                           /\ pcFile' = "select" /\ wg' = wg
                           /\ UNCHANGED << fileErr, procExit >>
                      ELSE \E unlinked \in BOOLEAN :
                             IF unlinked
                             THEN /\ fileExists' = FALSE
                                  /\ pcFile' = "select" /\ wg' = wg
                                  /\ UNCHANGED << fileErr, procExit >>
                             ELSE /\ fileExists' = TRUE
                                  /\ fileErr' = "unlink"
                                  /\ Fatalf
                                  /\ UNCHANGED << pcFile, wg >>
    /\ UNCHANGED << now, rampupStart, ctxVars, panicked, mainVars, cleanVars,
                    writtenBytes, memCtlVars, chanVars, memWVars, cpuVars,
                    envVars, fileVariant, pageVars, fsize >>

\* case <-rm.ctx.Done(): return
FileCancel ==
    /\ Alive
    /\ pcFile = "select"
    /\ ctxDone
    /\ FileReturns
    /\ UNCHANGED << now, rampupStart, ctxVars, panicked, mainVars, cleanVars,
                    writtenBytes, diskVars, memCtlVars, chanVars, memWVars,
                    cpuVars, envVars, procVars, pageVars >>

Min(a, b) == IF a < b THEN a ELSE b

\* a tick without a cap: everything that is missing may be written at once
MaxWritePerTickUncapped == config.file * MiB

\* the most one tick writes: one buffer, or in file.go:298-302 ten of them
MaxWritePerTick ==
    IF fileVariant = FileV3 THEN MaxWriteBuffers * MiB ELSE MiB

\* a tick that writes its whole allowance whatever is missing
BytesToWriteUnclamped(missing) == MaxWritePerTick

\* bytesToWrite: what is missing, at most the tick's allowance
BytesToWrite(missing) == Min(missing, MaxWritePerTick)

\* the buffer-sized writes a tick of file.go:305-320 makes for n bytes
Chunks(n) == (n + MiB - 1) \div MiB

\* case <-ticker.C at `elapsed`: write what is missing up to the tick's
\* allowance, then file.Sync().  A failed write: file.go:78-81 logs and
\* returns, file.go:312-315 and Makefile:126-129 call log.Fatalf.  A failed
\* sync: file.go:87 ignores the result, file.go:323-326 and Makefile:135-138
\* call log.Fatalf.
FileTickAt(elapsed) ==
    /\ Alive
    /\ pcFile = "select"
    /\ LET currentFileSize == getCurrentFileSizeUsage(config, elapsed) * MiB
           bytesToWrite == BytesToWrite(currentFileSize - writtenBytes)
       IN  IF writtenBytes < currentFileSize
           THEN \E outcome \in {"ok", "write", "sync"} :
                  IF outcome = "ok"
                  THEN /\ writtenBytes' = writtenBytes + bytesToWrite
                       /\ UNCHANGED << pcFile, wg, fileErr, procExit >>
                  ELSE IF outcome = "write"
                  THEN /\ fileErr' = "write"
                       /\ IF fileVariant = FileV1
                          THEN /\ FileReturns
                               /\ UNCHANGED << writtenBytes, procExit >>
                          ELSE /\ Fatalf
                               /\ \E k \in 0 .. Chunks(bytesToWrite) - 1 :
                                    writtenBytes' = writtenBytes + k * MiB
                               /\ UNCHANGED << pcFile, wg >>
                  ELSE /\ fileErr' = "sync"
                       /\ writtenBytes' = writtenBytes + bytesToWrite
                       /\ UNCHANGED << pcFile, wg >>
                       /\ IF fileVariant = FileV1
                          THEN UNCHANGED procExit
                          ELSE Fatalf
           ELSE UNCHANGED << writtenBytes, pcFile, wg, fileErr, procExit >>
    /\ UNCHANGED << rampupStart, panicked, mainVars, cleanVars, diskVars,
                    memCtlVars, chanVars, memWVars, cpuVars, envVars,
                    fileVariant, pageVars, fsize >>

\* a tick at some moment of the current clock unit
FileTick ==
    /\ FileTickAt(Elapsed)
    /\ UNCHANGED << now, ctxVars >>

\* the tick that ends one ticker period: the clock advances by the period
\* and the handler runs at once
FileTimedTick ==
    /\ now < MaxTime
    /\ now' = now + 1
    /\ IF now + 1 >= config.duration
       THEN Cancel("timeout")
       ELSE UNCHANGED ctxVars
    /\ FileTickAt(Elapsed + 1)

\* the clock while no file goroutine is starting or ticking
FileClock ==
    /\ pcFile \notin {"entry", "select"}
    /\ TimePasses

\* SIGKILL, or any other end of the process that runs nothing more
Kill ==
    /\ Alive
    /\ pcMain \notin {"parse", "validate"}
    /\ procExit' = "killed"
    /\ UNCHANGED << now, rampupStart, ctxVars, wg, panicked, mainVars,
                    cleanVars, fileVars, diskVars, memCtlVars, chanVars,
                    memWVars, cpuVars, envVars, fileVariant, pageVars, fileErr, fsize >>

(***************************************************************************)
(* consumeCPU and cpuWorker i                                              *)
(***************************************************************************)
\* if rm.config.CPUPercent <= 0 { return }; numCPU := runtime.NumCPU()
CpuEntry ==
    /\ Alive
    /\ pcCpu = "entry"
    /\ IF Le(config.cpu, 0)
       THEN pcCpu' = "exited" /\ wg' = wg - 1
       ELSE pcCpu' = "spawn" /\ wg' = wg
    /\ cpuIdx' = 0
    /\ UNCHANGED << now, rampupStart, ctxVars, panicked, mainVars, cleanVars,
                    fileVars, diskVars, memCtlVars, chanVars, memWVars,
                    pcCpuW, workDuration, sleepDuration, envVars, procVars, pageVars >>

\* a spawn loop that starts the worker without registering it
CpuSpawnNoAdd ==
    /\ Alive
    /\ pcCpu = "spawn"
    /\ cpuIdx < numCPU
    /\ pcCpuW' = [pcCpuW EXCEPT ![cpuIdx + 1] = "select"]
    /\ cpuIdx' = cpuIdx + 1
    /\ UNCHANGED << now, rampupStart, ctxVars, wg, panicked, mainVars,
                    cleanVars, fileVars, diskVars, memCtlVars, chanVars,
                    memWVars, pcCpu, workDuration, sleepDuration, envVars, procVars, pageVars >>

\* for i := 0; i < numCPU; i++ { rm.wg.Add(1); go rm.cpuWorker(i) }
CpuSpawn ==
    /\ Alive
    /\ pcCpu = "spawn"
    /\ cpuIdx < numCPU
    /\ wg' = wg + 1
    /\ pcCpuW' = [pcCpuW EXCEPT ![cpuIdx + 1] = "select"]
    /\ cpuIdx' = cpuIdx + 1
    /\ UNCHANGED << now, rampupStart, ctxVars, panicked, mainVars, cleanVars,
                    fileVars, diskVars, memCtlVars, chanVars, memWVars, pcCpu,
                    workDuration, sleepDuration, envVars, procVars, pageVars >>

\* consumeCPU returns: the deferred rm.wg.Done()
CpuReturn ==
    /\ Alive
    /\ pcCpu = "spawn"
    /\ cpuIdx = numCPU
    /\ pcCpu' = "exited"
    /\ wg' = wg - 1
    /\ UNCHANGED << now, rampupStart, ctxVars, panicked, mainVars, cleanVars,
                    fileVars, diskVars, memCtlVars, chanVars, memWVars, cpuIdx,
                    pcCpuW, workDuration, sleepDuration, envVars, procVars, pageVars >>

\* time.Duration(x * 0.2) * time.Millisecond, in milliseconds
DutyMs(x) == FloatToInt(FloatMul(x, FloatDiv(1, 5)))

\* float64 100 - p, exact for the values of the model
FloatSubFrom100(p) ==
    LET k == IF p.e < 0 THEN p.e ELSE 0
    IN  FloatRound(100 * Pow2(0 - k) - p.m * Pow2(p.e - k), k)

\* select: case <-rm.ctx.Done(): return count
CpuWCancel(i) ==
    /\ Alive
    /\ pcCpuW[i] = "select"
    /\ ctxDone
    /\ pcCpuW' = [pcCpuW EXCEPT ![i] = "exited"]
    /\ wg' = wg - 1
    /\ UNCHANGED << now, rampupStart, ctxVars, panicked, mainVars, cleanVars,
                    fileVars, diskVars, memCtlVars, chanVars, memWVars, pcCpu,
                    cpuIdx, workDuration, sleepDuration, envVars, procVars, pageVars >>

\* select: default: one duty cycle, the work burst and then the sleep
CpuWCycle(i) ==
    /\ Alive
    /\ pcCpuW[i] = "select"
    /\ ~ctxDone
    /\ LET currentCPUPercent == getCurrentCPUUsage(config, Elapsed)
       IN  /\ workDuration' = [workDuration EXCEPT ![i] = DutyMs(currentCPUPercent)]
           /\ sleepDuration' =
                [sleepDuration EXCEPT ![i] = DutyMs(FloatSubFrom100(currentCPUPercent))]
    /\ UNCHANGED << now, rampupStart, ctxVars, wg, panicked, mainVars,
                    cleanVars, fileVars, diskVars, memCtlVars, chanVars,
                    memWVars, pcCpu, cpuIdx, pcCpuW, envVars, procVars, pageVars >>

(***************************************************************************)
(* The program: main, one Cleanup() call by main, and the goroutines.      *)
(***************************************************************************)
Next ==
    \/ TimePasses
    \/ Start
    \/ MainCtxDone
    \/ MainSignal
    \/ MainExit
    \/ CleanupEnter(Main)
    \/ CleanupCancel(Main)
    \/ CleanupWait(Main)
    \/ CleanupClose(Main)
    \/ CleanupRemove(Main)
    \/ CleanupDrop(Main)
    \/ MemCtlSpawn
    \/ MemCtlCancel
    \/ MemCtlTick
    \/ MemCtlIncrement
    \/ \E i \in Workers : MemWCancel(i)
    \/ \E i \in Workers : MemWTarget(i)
    \/ \E i \in Workers : MemWTick(i)
    \/ FileCreate
    \/ FileCancel
    \/ FileTick
    \/ CpuEntry
    \/ CpuSpawn
    \/ CpuReturn
    \/ \E i \in Workers : CpuWCancel(i)
    \/ \E i \in Workers : CpuWCycle(i)

Spec == Init /\ [][Next]_vars

(***************************************************************************)
(* Cleanup() called by further callers once shutdown has been triggered.   *)
(***************************************************************************)
ExtraCleanup(c) ==
    \/ CleanupEnter(c)
    \/ CleanupCancel(c)
    \/ CleanupWait(c)
    \/ CleanupClose(c)
    \/ CleanupRemove(c)
    \/ CleanupDrop(c)

NextCleanup ==
    \/ Next
    \/ \E c \in Callers \ {Main} : ExtraCleanup(c)

SpecCleanup == Init /\ [][NextCleanup]_vars

(***************************************************************************)
(* The ramp functions alone, over every configuration and elapsed time.    *)
(***************************************************************************)
RampConfigs ==
    [cpu : {0, 30, 100}, mem : 0 .. MaxRampValue, file : {0, 3, MaxRampValue},
     rampup : -1 .. MaxRampTime, duration : {MaxRampTime + 2}]

InitRamp == InitWith(RampConfigs, {NumCPU})

RampClock ==
    /\ now < MaxRampTime + 1
    /\ now' = now + 1
    /\ UNCHANGED << rampupStart, ctxVars, wg, panicked, mainVars, cleanVars,
                    fileVars, diskVars, memCtlVars, chanVars, memWVars,
                    cpuVars, envVars, procVars, pageVars >>

\* one call of each ramp function at the same instant
SampleUsage ==
    /\ usage' = [all |-> getCurrentResourceUsage(config, Elapsed),
                 cpuOnly |-> getCurrentCPUUsage(config, Elapsed),
                 memOnly |-> getCurrentMemoryUsage(config, Elapsed),
                 fileOnly |-> getCurrentFileSizeUsage(config, Elapsed),
                 at |-> Elapsed]
    /\ UNCHANGED << now, rampupStart, ctxVars, wg, panicked, mainVars,
                    cleanVars, fileVars, diskVars, memCtlVars, chanVars,
                    memWVars, cpuVars, config, numCPU, procVars, pageVars >>

NextRamp == RampClock \/ SampleUsage

SpecRamp == InitRamp /\ [][NextRamp]_vars

(***************************************************************************)
(* The controller's dispatch alone, over worker counts and targets.        *)
(***************************************************************************)
DistConfigs ==
    [cpu : {0}, mem : 0 .. MaxDistMB, file : {0}, rampup : RampupTimes,
     duration : Durations]

InitDist == InitWith(DistConfigs, 1 .. MaxWorkers)

NextDist ==
    \/ TimePasses
    \/ Start
    \/ MemCtlSpawn
    \/ MemCtlTick
    \/ \E i \in Workers : MemWTarget(i)

SpecDist == InitDist /\ [][NextDist]_vars

(***************************************************************************)
(* The memory actuator with its controller, on MemCores cores.             *)
(***************************************************************************)
MemConfigs ==
    [cpu : {0}, mem : 1 .. MaxMemMB, file : {0}, rampup : RampupTimes,
     duration : Durations]

InitMem == InitWith(MemConfigs, {MemCores})

NextMem ==
    \/ TimePasses
    \/ Start
    \/ MainCtxDone
    \/ MainSignal
    \/ MainExit
    \/ CleanupEnter(Main)
    \/ CleanupCancel(Main)
    \/ CleanupWait(Main)
    \/ CleanupClose(Main)
    \/ CleanupRemove(Main)
    \/ CleanupDrop(Main)
    \/ MemCtlSpawn
    \/ MemCtlCancel
    \/ MemCtlTick
    \/ MemCtlIncrement
    \/ \E i \in Workers : MemWCancel(i)
    \/ \E i \in Workers : MemWTarget(i)
    \/ \E i \in Workers : MemWTick(i)

SpecMem == InitMem /\ [][NextMem]_vars

(***************************************************************************)
(* The file actuator in each of its three builds, with the CPU actuator    *)
(* beside it.  The clock unit is the ticker period: while the file         *)
(* goroutine waits in its select, the clock advances with its tick.        *)
(***************************************************************************)
FileSizes == {1, 2, MaxFileSpecMB}

FileConfigs ==
    [cpu : {0, 50}, mem : {0}, file : FileSizes, rampup : 0 .. MaxTime,
     duration : {MaxTime, MaxTime + 1}]

InitFile ==
    InitAt(FileConfigs, {NumCPU}, {FileV1, FileV3, FileV4}, {<< >>}, "start")

NextFile ==
    \/ FileClock
    \/ FileTimedTick
    \/ Kill
    \/ Start
    \/ MainCtxDone
    \/ MainSignal
    \/ MainExit
    \/ CleanupEnter(Main)
    \/ CleanupCancel(Main)
    \/ CleanupWait(Main)
    \/ CleanupClose(Main)
    \/ CleanupRemove(Main)
    \/ CleanupDrop(Main)
    \/ FileCreate
    \/ FileCancel
    \/ CpuEntry
    \/ CpuSpawn
    \/ CpuReturn
    \/ \E i \in Workers : CpuWCancel(i)
    \/ \E i \in Workers : CpuWCycle(i)

SpecFile == InitFile /\ [][NextFile]_vars

(***************************************************************************)
(* The target hand-off between the controller and its workers in a run     *)
(* that is not cancelled: the tickers keep firing and a ready receive is    *)
(* taken in the end.                                                       *)
(***************************************************************************)
HandoffConfigs ==
    [cpu : {0}, mem : 1 .. MaxMemMB, file : {0}, rampup : RampupTimes,
     duration : {MaxTime + 1}]

InitHandoff == InitWith(HandoffConfigs, {MemCores})

NextHandoff ==
    \/ TimePasses
    \/ Start
    \/ MemCtlSpawn
    \/ MemCtlTick
    \/ MemCtlIncrement
    \/ \E i \in Workers : MemWTarget(i)
    \/ \E i \in Workers : MemWTick(i)

FairHandoff ==
    /\ WF_vars(TimePasses)
    /\ WF_vars(Start)
    /\ WF_vars(MemCtlSpawn)
    /\ WF_vars(MemCtlTick)
    /\ \A i \in 1 .. MemCores : WF_vars(MemWTarget(i)) /\ WF_vars(MemWTick(i))

SpecHandoff == InitHandoff /\ [][NextHandoff]_vars /\ FairHandoff

(***************************************************************************)
(* The CPU worker's duty cycle over every whole target percentage.         *)
(***************************************************************************)
CpuPercents == 0 .. 100

DutyConfigs ==
    [cpu : CpuPercents, mem : {0}, file : {0}, rampup : RampupTimes,
     duration : {MaxTime + 1}]

InitDuty == InitWith(DutyConfigs, {NumCPU})

NextDuty ==
    \/ TimePasses
    \/ Start
    \/ CpuEntry
    \/ CpuSpawn
    \/ CpuReturn
    \/ \E i \in Workers : CpuWCycle(i)

SpecDuty == InitDuty /\ [][NextDuty]_vars

(***************************************************************************)
(* main, Cleanup() and the file actuator in a run that may find a file at  *)
(* the configured path.                                                    *)
(***************************************************************************)
PathConfigs ==
    [cpu : {0}, mem : {0}, file : {0, MaxFileMB}, rampup : RampupTimes,
     duration : Durations]

InitPath == InitOn(PathConfigs, {NumCPU}, {FileV1}, {<< >>}, "start", BOOLEAN)

NextPath ==
    \/ TimePasses
    \/ Start
    \/ MainCtxDone
    \/ MainSignal
    \/ MainExit
    \/ CleanupEnter(Main)
    \/ CleanupCancel(Main)
    \/ CleanupWait(Main)
    \/ CleanupClose(Main)
    \/ CleanupRemove(Main)
    \/ CleanupDrop(Main)
    \/ FileCreate
    \/ FileCancel
    \/ FileTick

SpecPath == InitPath /\ [][NextPath]_vars

(***************************************************************************)
(* The aggregation of the workers' increments, with more memory to         *)
(* allocate than incrementChan buffers, in a run that is not cancelled.    *)
(***************************************************************************)
AggConfigs ==
    [cpu : {0}, mem : {NumCPU * IncBufPerGoroutine + MaxAggExtraMB},
     file : {0}, rampup : {0}, duration : {MaxTime + 1}]

InitAgg == InitWith(AggConfigs, {NumCPU})

NextAgg ==
    \/ TimePasses
    \/ Start
    \/ MemCtlSpawn
    \/ MemCtlTick
    \/ MemCtlIncrement
    \/ \E i \in Workers : MemWTarget(i)
    \/ \E i \in Workers : MemWTick(i)

SpecAgg == InitAgg /\ [][NextAgg]_vars

(***************************************************************************)
(* main from its validation on, over valid and invalid configurations.     *)
(***************************************************************************)
AnyConfigs ==
    [cpu : {-1, 0, 50, 101, NaN}, mem : {-1, 0, MaxMemoryMB},
     file : {-1, 0, MaxFileMB}, rampup : {0}, duration : {-1, 0, MaxTime - 1}]

InitConfig == InitAt(AnyConfigs, {NumCPU}, {FileV1}, {<< >>}, "validate")

NextConfig == Validate \/ Next

SpecConfig == InitConfig /\ [][NextConfig]_vars

(***************************************************************************)
(* flag.Parse on the -fsize argument alone.                                *)
(***************************************************************************)
RECURSIVE ArgsOfLen(_)
ArgsOfLen(n) ==
    IF n = 0 THEN {<< >>}
    ELSE {Append(s, c) : s \in ArgsOfLen(n - 1), c \in ArgChars}

FsizeArgs == UNION {ArgsOfLen(n) : n \in 1 .. MaxArgLen}

ParseConfigs ==
    [cpu : {0}, mem : {0}, file : {0}, rampup : {0}, duration : {MaxTime - 1}]

InitParse == InitAt(ParseConfigs, {NumCPU}, {FileV1}, FsizeArgs, "parse")

NextParse == ParseFsize \/ Validate

SpecParse == InitParse /\ [][NextParse]_vars

(***************************************************************************)
(* Properties                                                              *)
(***************************************************************************)
RECURSIVE SumTo(_, _)
SumTo(f, n) == IF n = 0 THEN 0 ELSE f[n] + SumTo(f, n - 1)

\* no goroutine started by Start() or by an actuator is still running
AllExited ==
    /\ pcMemCtl \in {"idle", "exited"}
    /\ pcFile \in {"idle", "exited"}
    /\ pcCpu \in {"idle", "exited"}
    /\ \A i \in Workers : pcMemW[i] \in {"none", "exited"}
    /\ \A i \in Workers : pcCpuW[i] \in {"none", "exited"}

\* the process is over: main returned, or a goroutine panicked
ProcessOver == panicked \/ pcMain = "exited"

InBody(c) == pcClean[c] \in {"cancel", "wait", "close", "remove", "drop"}

\* C1: however many callers call Cleanup(), the function guarded by the
\* sync.Once starts at most once and os.Remove is called at most once; no
\* two callers are inside it together; and a call that has returned has seen
\* it run exactly once and to its end.
C1_CleanupOnce ==
    /\ bodyRuns <= 1
    /\ removeCalls <= 1
    /\ Cardinality({c \in Callers : InBody(c)}) <= 1
    /\ \A c \in Callers :
         pcClean[c] = "returned" =>
           once = "done" /\ bodyRuns = 1 /\ removeCalls = 1 /\ memDropped

\* C1 witness: main and another caller have both returned from Cleanup() of
\* a run that created its file, and the file is gone
C1_Witness ==
    /\ \A c \in Callers : pcClean[c] = "returned"
    /\ rmFile = "closed"
    /\ ~fileExists
    /\ removeCalls = 1

\* C2: once Cleanup() is past rm.wg.Wait() (it closes, removes, drops),
\* every actuator goroutine and every worker it spawned has exited, and
\* none is started afterwards.
C2_ReleaseAfterWorkers ==
    (\/ \E c \in Callers : pcClean[c] \in {"close", "remove", "drop"}
     \/ rmFile = "closed"
     \/ removeCalls > 0
     \/ memDropped)
    => AllExited /\ wg = 0

\* C2 witness: Cleanup() is releasing after a CPU worker, a memory worker
\* and the file goroutine, all of which ran, have exited
C2_Witness ==
    /\ pcClean[Main] = "remove"
    /\ rmFile = "closed"
    /\ \E i \in Workers : pcCpuW[i] = "exited" /\ workDuration[i] > 0
    /\ \E i \in Workers : pcMemW[i] = "exited" /\ blocks[i] > 0
    /\ pcFile = "exited"
    /\ writtenBytes > 0

\* C3: after the cancellation every worker exits and Cleanup() returns: the
\* process never ends with a worker that has not exited or with main's
\* Cleanup() not returned.
C3_WorkersExitAfterCancel ==
    ProcessOver => AllExited /\ pcClean[Main] = "returned"

Phase ==
    IF pcMain = "start" THEN "Idle"
    ELSE IF once = "done" THEN "Terminated"
    ELSE IF ctxDone THEN "Stopping"
    ELSE "Running"

\* C4: the context is first cancelled by its timer or by Stop(); once
\* cancelled it stays cancelled, by the same cause; the controller never
\* returns to Idle or Running once it has left them, and leaves Stopping
\* only for Terminated.
C4_Lifecycle ==
    [][/\ ctxDone => ctxDone'
       /\ (~ctxDone /\ ctxDone') => cancelCause' \in {"timeout", "stop"}
       /\ ctxDone => cancelCause' = cancelCause
       /\ Phase # "Idle" => Phase' # "Idle"
       /\ Phase = "Stopping" => Phase' \in {"Stopping", "Terminated"}
       /\ Phase = "Terminated" => Phase' = "Terminated"]_vars

\* C4 witness: a run stopped by Stop() has reached Terminated
C4_Witness ==
    /\ cancelCause = "stop"
    /\ Phase = "Terminated"
    /\ now > 0

\* C5: whenever the process is over, Cleanup() has run to its end and no
\* file is left at the path.
C5_ShutdownCleansUp ==
    ProcessOver => once = "done" /\ ~fileExists

\* C6: an actuator whose target is zero is never launched: its goroutine
\* never leaves idle, it has no worker, and with fileSizeMB = 0 no file is
\* created.
C6_ZeroTargetNotLaunched ==
    /\ config.cpu = 0 =>
         pcCpu = "idle" /\ \A i \in Workers : pcCpuW[i] = "none"
    /\ config.mem = 0 =>
         pcMemCtl = "idle" /\ \A i \in Workers : pcMemW[i] = "none"
    /\ config.file = 0 =>
         pcFile = "idle" /\ rmFile = "nil" /\ ~fileExists

\* C6 witness: a whole run with cpuPercent = 0 and the other two actuators
\* at work
C6_Witness ==
    /\ config.cpu = 0
    /\ pcMain = "exited"
    /\ pcMemCtl = "exited"
    /\ writtenBytes > 0

\* C7: with rampupTime <= 0 or elapsed >= rampupTime, getCurrentResourceUsage
\* returns the three configured values exactly.
C7_RampEndExact ==
    (usage.at # None /\ (config.rampup <= 0 \/ usage.at >= config.rampup))
    => /\ FloatEq(usage.all.cpu, FloatOfInt(config.cpu))
       /\ usage.all.mem = config.mem
       /\ usage.all.file = config.file

\* C7 witness: a call after the end of a ramp that took time
C7_Witness ==
    /\ config.rampup > 0
    /\ usage.at > config.rampup
    /\ usage.all.mem = config.mem
    /\ config.mem > 0
    /\ config.cpu > 0

InRamp(at) == at # None /\ at >= 0 /\ at < config.rampup

UsageLeq(u, v) ==
    /\ FloatLeq(u.all.cpu, v.all.cpu)
    /\ u.all.mem <= v.all.mem
    /\ u.all.file <= v.all.file
    /\ u.memOnly <= v.memOnly

\* C8: inside the ramp the targets are 0 at elapsed 0 and never above the
\* configured values, and of two calls the later one returns no less.
C8_RampMonotone ==
    /\ [](InRamp(usage.at) =>
            /\ FloatLeq(usage.all.cpu, FloatOfInt(config.cpu))
            /\ usage.all.mem <= config.mem
            /\ usage.all.file <= config.file
            /\ usage.memOnly <= config.mem
            /\ usage.at = 0 =>
                 /\ FloatEq(usage.all.cpu, FloatOfInt(0))
                 /\ usage.all.mem = 0
                 /\ usage.all.file = 0
                 /\ usage.memOnly = 0)
    /\ [][(InRamp(usage.at) /\ InRamp(usage'.at) /\ usage.at <= usage'.at)
            => UsageLeq(usage, usage')]_vars

\* C8 witness: a call strictly inside a ramp that returns a memory target
\* strictly between 0 and the configured one
C8_Witness ==
    /\ InRamp(usage.at)
    /\ usage.at > 0
    /\ usage.all.mem > 0
    /\ usage.all.mem < config.mem
    /\ usage.memOnly = usage.all.mem

Shares(cur, n) == [i \in 1 .. n |-> WorkerTarget(cur, n, i)]

\* C9: the targets the controller computes from currentMemoryMB for its
\* numGoroutines workers sum to currentMemoryMB, differ by at most 1, and
\* the larger ones are those of the first (currentMemoryMB mod
\* numGoroutines) workers.
C9_Distribution ==
    LET t == Shares(ctlTargetMB, numCPU)
    IN  /\ SumTo(t, numCPU) = ctlTargetMB
        /\ \A i, j \in Workers : t[i] - t[j] <= 1
        /\ \A i, j \in Workers : i < j => t[i] >= t[j]
        /\ \A i \in Workers :
             t[i] > ctlTargetMB \div numCPU <=> i <= ctlTargetMB % numCPU

\* C9 witness: one tick has filled every worker's channel, with a target
\* that does not divide evenly
C9_Witness ==
    /\ numCPU > 1
    /\ ctlTargetMB % numCPU # 0
    /\ ctlTargetMB > numCPU
    /\ \A i \in Workers : targetChans[i] = WorkerTarget(ctlTargetMB, numCPU, i)
    /\ SumTo(targetChans, numCPU) = ctlTargetMB

HeldSum == SumTo(currentTargetMB, numCPU)

Immediate == config.rampup = 0 /\ config.mem > 0

\* C10 as stated: with rampupTime = 0, from Start() on the targets held by
\* the memory workers sum to memoryMB.
C10_HeldSumFromStart ==
    (Immediate /\ pcMain # "start") => HeldSum = config.mem

\* C10 amended: with rampupTime = 0 the workers hold 0 until the controller
\* has ticked; each then holds 0 or its share of memoryMB, and once the
\* held targets sum to memoryMB they keep doing so.
C10_HeldSumReachesM ==
    /\ [](Immediate =>
            /\ pcMemCtl \in {"idle", "spawn"} => HeldSum = 0
            /\ \A i \in Workers :
                 currentTargetMB[i] \in {0, WorkerTarget(config.mem, numCPU, i)}
            /\ HeldSum <= config.mem)
    /\ [][(Immediate /\ HeldSum = config.mem) => HeldSum' = config.mem]_vars

\* C10 witness: every worker has adopted its share, the shares differ, and
\* the workers have allocated up to them
C10_Witness ==
    /\ Immediate
    /\ HeldSum = config.mem
    /\ config.mem % numCPU # 0
    /\ \A i \in Workers : blocks[i] = currentTargetMB[i]
    /\ \E i \in Workers : blocks[i] > 1

FileTargetBytes == config.file * MiB

\* C11 as stated: with rampupTime = R > 0 and duration > R, whenever the
\* process and its file actuator run at elapsed >= R the bytes written are
\* exactly F MiB;
\* and after Cleanup() no file is left.
C11_ExactlyFAfterRamp ==
    /\ (/\ config.rampup > 0
        /\ config.duration > config.rampup
        /\ Alive
        /\ pcFile = "select"
        /\ Elapsed >= config.rampup)
       => writtenBytes = FileTargetBytes
    /\ pcClean[Main] = "returned" => ~fileExists

\* C11 amended: the bytes written never exceed F MiB; a tick at elapsed >= R
\* that changes them and does not end the process leaves min(F MiB, written
\* + the tick's allowance); once F MiB are written they stay written; after
\* Cleanup() no file is left.
C11_GrowsToFAfterRamp ==
    /\ [](writtenBytes <= FileTargetBytes)
    /\ [][(/\ pcFile = "select"
           /\ writtenBytes' # writtenBytes
           /\ procExit' = "none"
           /\ now' - rampupStart' >= config.rampup)
          => writtenBytes' = Min(FileTargetBytes, writtenBytes + MaxWritePerTick)]_vars
    /\ [][writtenBytes = FileTargetBytes => writtenBytes' = FileTargetBytes]_vars
    /\ [](pcClean[Main] = "returned" => ~fileExists)

\* C11 witness: file.go:253 has written its 12 MiB in two ticks after a ramp,
\* and Cleanup() has closed and removed the file
C11_Witness ==
    /\ config.rampup > 0
    /\ config.duration > config.rampup
    /\ fileVariant = FileV3
    /\ config.file > MaxWriteBuffers
    /\ writtenBytes = FileTargetBytes
    /\ pcClean[Main] = "returned"
    /\ rmFile = "closed"
    /\ ~fileExists

\* C12: a write, sync or unlink that fails in the file actuator does not
\* end the process: the workers of the other actuators exit only after the
\* cancellation, and main returns only after Cleanup() has run.
C12_FileFailureIsolated ==
    fileErr \in {"write", "sync", "unlink"} =>
        /\ procExit # "fatal"
        /\ ~ctxDone => \A i \in Workers : pcCpuW[i] # "exited" /\ pcMemW[i] # "exited"
        /\ pcMain = "exited" => once = "done"

\* goroutines that have started and not returned
RunningCount ==
    (IF pcMemCtl \in {"spawn", "select"} THEN 1 ELSE 0)
    + (IF pcFile \in {"entry", "select"} THEN 1 ELSE 0)
    + (IF pcCpu \in {"entry", "spawn"} THEN 1 ELSE 0)
    + Cardinality({i \in Workers : pcMemW[i] = "select"})
    + Cardinality({i \in Workers : pcCpuW[i] = "select"})

\* C13: after os.Create has failed the file actuator has returned without a
\* write and holds no count of the wait group, the process runs on, and
\* until the cancellation no CPU or memory goroutine has exited.
C13_CreateFailureIsolated ==
    fileErr = "create" =>
        /\ pcFile = "exited"
        /\ rmFile = "nil"
        /\ writtenBytes = 0
        /\ procExit = "none"
        /\ wg = RunningCount
        /\ ~ctxDone =>
             /\ pcMemCtl # "exited"
             /\ \A i \in Workers : pcCpuW[i] # "exited" /\ pcMemW[i] # "exited"
             /\ ~panicked

\* C13 witness: a run whose file could not be created has gone through its
\* CPU and memory work and through Cleanup() to main's return
C13_Witness ==
    /\ fileErr = "create"
    /\ config.cpu > 0
    /\ config.mem > 0
    /\ pcMain = "exited"
    /\ once = "done"
    /\ \E i \in Workers : pcCpuW[i] = "exited" /\ workDuration[i] > 0
    /\ \E i \in Workers : pcMemW[i] = "exited" /\ blocks[i] > 0

\* C14: once the process has been killed after the file actuator created
\* its file, the file is gone or something is left that can still run.
C14_ReclaimedAfterKill ==
    (procExit = "killed" /\ rmFile # "nil") => (~fileExists \/ ENABLED NextFile)

\* not a configuration main may run with: cpuPercent is no number of
\* [0, 100], or a size is negative, or the duration is not positive
Invalid(cfg) ==
    \/ ~(cfg.cpu # NaN /\ 0 <= cfg.cpu /\ cfg.cpu <= 100)
    \/ cfg.mem < 0
    \/ cfg.file < 0
    \/ cfg.duration <= 0

\* C15: with an invalid configuration main never gets past its validation:
\* Start() is not called, no goroutine is started and no file is created.
C15_InvalidConfigAborts ==
    Invalid(config) =>
        /\ pcMain = "validate"
        /\ RunningCount = 0
        /\ wg = 0
        /\ rmFile = "nil"
        /\ ~fileExists

\* C16: "1.5G" parses to 1536 MB, "100M" to 100 MB, and "100X" is rejected.
C16_UnitSuffixedSize ==
    (pcMain # "parse" \/ procExit # "none") =>
        /\ fsize.arg = << "1", ".", "5", "G" >> => fsize.ok /\ fsize.mb = 1536
        /\ fsize.arg = << "1", "0", "0", "M" >> => fsize.ok /\ fsize.mb = 100
        /\ fsize.arg = << "1", "0", "0", "X" >> => ~fsize.ok

\* C17: no goroutine sends on a channel that has been closed: the run never
\* panics with "send on closed channel".
C17_NoSendOnClosed == ~panicked

\* the share of worker i in the controller's target at the present time
ShareNow(i) ==
    WorkerTarget(getCurrentMemoryUsage(config, Elapsed), numCPU, i)

\* C18: the dispatch never blocks and never overwrites.  The controller at
\* its select can always run its tick; a full slot keeps its value until
\* the worker takes it; an empty slot that is filled gets the worker's
\* share of the present target; and a dispatch serves every worker, so
\* after it no slot is empty.
C18_DispatchNeverBlocks ==
    /\ [](pcMemCtl = "select" /\ Alive => ENABLED MemCtlTick)
    /\ [][\A i \in Workers :
            /\ targetChans[i] # None =>
                 targetChans'[i] \in {targetChans[i], None}
            /\ (targetChans[i] = None /\ targetChans'[i] # None) =>
                 /\ targetChans'[i] = ShareNow(i)
                 /\ pcMemCtl' = "select"
                 /\ \A j \in Workers : targetChans'[j] # None]_vars

\* a target was dropped: worker 1's slot still holds an older target than
\* the one the controller has just dispatched to worker 2
C18_Witness ==
    /\ pcMemCtl = "select"
    /\ targetChans[1] # None
    /\ targetChans[1] < WorkerTarget(ctlTargetMB, numCPU, 1)
    /\ targetChans[2] = WorkerTarget(ctlTargetMB, numCPU, 2)
    /\ targetChans[2] > 0

\* C19: in a run that goes on, every worker ends up holding, and having
\* allocated, its share of the latest target, for good.
C19_LatestTargetTakesEffect ==
    <>[](\A i \in Workers :
            currentTargetMB[i] = ShareNow(i) /\ blocks[i] = ShareNow(i))

\* the ramp is over and both workers hold and have allocated their share
C19_Witness ==
    /\ config.rampup > 0
    /\ Elapsed >= config.rampup
    /\ pcMemCtl = "select"
    /\ \A i \in Workers :
         /\ currentTargetMB[i] = ShareNow(i)
         /\ blocks[i] = ShareNow(i)
         /\ blocks[i] > 0

\* C20: a worker's held target changes only by taking the value out of its
\* slot, never decreases, and the slot holds a target that is no older than
\* the held one and no newer than the controller's latest.
C20_AdoptedInOrder ==
    /\ [](\A i \in Workers :
            targetChans[i] # None =>
                /\ currentTargetMB[i] <= targetChans[i]
                /\ targetChans[i] <= WorkerTarget(ctlTargetMB, numCPU, i))
    /\ [][\A i \in Workers :
            /\ currentTargetMB'[i] >= currentTargetMB[i]
            /\ currentTargetMB'[i] # currentTargetMB[i] =>
                 /\ currentTargetMB'[i] = targetChans[i]
                 /\ targetChans'[i] = None]_vars

\* a worker holds a positive target while a larger one waits in its slot
C20_Witness ==
    /\ currentTargetMB[1] > 0
    /\ targetChans[1] # None
    /\ targetChans[1] > currentTargetMB[1]

\* C21: a worker's allocation tick appends exactly one block when the arena
\* is smaller than the held target and none otherwise, and no step at all
\* makes an arena smaller or grows it by more than one block.
C21_OneBlockPerTick ==
    [][\A i \in Workers :
          /\ MemWTick(i) =>
               blocks'[i] = blocks[i]
                              + (IF blocks[i] < currentTargetMB[i] THEN 1 ELSE 0)
          /\ blocks'[i] \in {blocks[i], blocks[i] + 1}
          /\ blocks'[i] # blocks[i] => blocks[i] < currentTargetMB[i]]_vars

\* worker 1 has grown its arena block by block up to a target of two blocks
C21_Witness ==
    /\ pcMemW[1] = "select"
    /\ currentTargetMB[1] = 2
    /\ blocks[1] = 2

\* C22: once the ramp is over and a worker's arena has its final size n >= 1,
\* the access ticks to come touch every block 0 .. n-1 within a number of
\* ticks proportional to n (here 4 * n, four times a full rotation).
C22_EveryBlockTouched ==
    \A i \in Workers :
        (/\ pcMemW[i] = "select"
         /\ Elapsed >= config.rampup
         /\ blocks[i] >= 1
         /\ blocks[i] = ShareNow(i)
         /\ blocks[i] = currentTargetMB[i]) =>
            TouchedInCalls(blocks[i], curPos[i], 4 * blocks[i])
                = 0 .. blocks[i] - 1

\* C23: without a ramp, a worker that has computed its cycle for the target
\* percentage p works p * 0.2 ms and sleeps (100 - p) * 0.2 ms: the two add
\* up to the 20 ms cycle and the work is p% of it.
C23_DutyCycle ==
    \A i \in Workers :
        (config.rampup = 0 /\ workDuration[i] + sleepDuration[i] > 0) =>
            /\ workDuration[i] + sleepDuration[i] = 20
            /\ 5 * workDuration[i] = config.cpu
            /\ 5 * sleepDuration[i] = 100 - config.cpu

\* C24: the written bytes never exceed the ramp's present target (so never
\* the configured size), never decrease, and grow by at most 10 MiB in one
\* tick.
C24_GrowthMonotoneBounded ==
    /\ [](/\ writtenBytes <= getCurrentFileSizeUsage(config, Elapsed) * MiB
          /\ writtenBytes <= config.file * MiB)
    /\ [][/\ writtenBytes' >= writtenBytes
          /\ writtenBytes' - writtenBytes <= 10 * MiB]_vars

\* a tick of the file.go:253 worker has written its full 10 MiB and the file
\* is still short of the configured size
C24_Witness ==
    /\ fileVariant = FileV3
    /\ pcFile = "select"
    /\ writtenBytes = 10 * MiB
    /\ writtenBytes < config.file * MiB

\* C25: once a write or a sync has failed the file worker is stopped: it is
\* not at its select any more, or the process has ended, and the file does
\* not grow again.
C25_FailureStopsWorker ==
    /\ [](fileErr \in {"write", "sync"} =>
            pcFile # "select" \/ procExit # "none")
    /\ [][(fileErr \in {"write", "sync"}) => (writtenBytes' = writtenBytes)]_vars

\* C26: Cleanup() goes through all its release steps whatever fails: a
\* failed close leads on to the remove, each step after the wait can always
\* be taken, and Cleanup() has returned only after the close, one remove
\* and the memory drop.
C26_CleanupAttemptsAll ==
    /\ [](\A c \in Callers :
            /\ (pcClean[c] \in {"close", "remove", "drop"} /\ Alive) =>
                 ENABLED (CleanupClose(c) \/ CleanupRemove(c) \/ CleanupDrop(c))
            /\ pcClean[c] = "returned" =>
                 /\ rmFile # "open"
                 /\ removeCalls = 1
                 /\ memDropped
                 /\ once = "done")
    /\ [][(fileErr' = "close" /\ fileErr # "close") =>
            pcClean'[Main] = "remove"]_vars

\* Cleanup() has returned after a close that failed and a remove of a file
\* that was unlinked when it was created
C26_Witness ==
    /\ fileVariant = FileV4
    /\ fileErr = "close"
    /\ rmFile = "closed"
    /\ pcClean[Main] = "returned"
    /\ memDropped

\* C27: called at the same instant, getCurrentCPUUsage, getCurrentMemoryUsage
\* and getCurrentFileSizeUsage return the three components of
\* getCurrentResourceUsage.
C27_RampFunctionsAgree ==
    usage.at # None =>
        /\ FloatEq(usage.cpuOnly, usage.all.cpu)
        /\ usage.memOnly = usage.all.mem
        /\ usage.fileOnly = usage.all.file

\* a call strictly inside a ramp where all three targets are under way
C27_Witness ==
    /\ InRamp(usage.at)
    /\ usage.at > 0
    /\ usage.fileOnly > 0
    /\ usage.fileOnly < config.file
    /\ usage.memOnly > 0
    /\ usage.memOnly < config.mem
    /\ config.cpu > 0
    /\ ~FloatEq(usage.cpuOnly, FloatOfInt(config.cpu))
    /\ ~FloatEq(usage.cpuOnly, FloatOfInt(0))

\* C28: with fileSizeMB = 0 no step of the run creates or removes a file at
\* the configured path: what is there before a step is there after it.
C28_PathUntouched ==
    [][(config.file = 0) => (fileExists' = fileExists /\ rmFile' = rmFile)]_vars

\* C29: no arena is larger than the target its worker holds, and all the
\* arenas together hold at most the configured memoryMB.
C29_NoOvershoot ==
    /\ \A i \in Workers : blocks[i] <= currentTargetMB[i]
    /\ SumTo(blocks, numCPU) <= config.mem

\* both workers have filled their arenas to their shares of an odd memoryMB
C29_Witness ==
    /\ SumTo(blocks, numCPU) = config.mem
    /\ config.mem > numCPU
    /\ \A i \in Workers : pcMemW[i] = "select" /\ blocks[i] > 0
    /\ blocks[1] > blocks[2]

\* C30: whenever every worker stands at its select with its arena at the
\* held target and incrementChan is empty, the controller's totalActualMB
\* is the sum of the arena sizes.
C30_CounterAccurate ==
    (/\ pcMemCtl = "select"
     /\ incLen = 0
     /\ \A i \in Workers :
          pcMemW[i] = "select" /\ blocks[i] = currentTargetMB[i])
    => totalActualMB = SumTo(blocks, numCPU)

(***************************************************************************)
(* consumeMemory with one channel shared by all its workers, and its       *)
(* memoryWorker, which keeps 4 KB pages.  The accessTicker case of the     *)
(* worker rewrites bytes of pages it holds and changes nothing kept here.  *)
(***************************************************************************)
PageWorkers == 1 .. numCPU * GoroutinesPerCPU

\* pagesToAdd := blockSize / pageSize
PagesToAdd == MiB \div PageSize

\* for i := 0; i < numGoroutines; i++ { rm.wg.Add(1); go rm.memoryWorker(...) },
\* then lastAllocatedMB := 0
PageCtlSpawn ==
    /\ Alive
    /\ pcMemCtl = "spawn"
    /\ wg' = wg + 1
    /\ pcPageW' = [pcPageW EXCEPT ![ctlIdx + 1] = "select"]
    /\ IF ctlIdx + 1 = numCPU * GoroutinesPerCPU
       THEN pcMemCtl' = "select" /\ ctlIdx' = 0
       ELSE pcMemCtl' = "spawn" /\ ctlIdx' = ctlIdx + 1
    /\ lastAllocatedMB' = 0
    /\ UNCHANGED << now, rampupStart, ctxVars, panicked, mainVars, cleanVars,
                    fileVars, diskVars, ctlTargetMB, totalActualMB, chanVars,
                    memWVars, cpuVars, envVars, procVars, memoryChan,
                    memoryChanClosed, pageTargetMB, memoryPages >>

\* case <-rm.ctx.Done(): close(memoryChan); return
PageCtlCancel ==
    /\ Alive
    /\ pcMemCtl = "select"
    /\ ctxDone
    /\ memoryChanClosed' = TRUE
    /\ pcMemCtl' = "exited"
    /\ wg' = wg - 1
    /\ UNCHANGED << now, rampupStart, ctxVars, panicked, mainVars, cleanVars,
                    fileVars, diskVars, ctlIdx, ctlTargetMB, totalActualMB,
                    chanVars, memWVars, cpuVars, envVars, procVars, memoryChan,
                    lastAllocatedMB, pcPageW, pageTargetMB, memoryPages >>

\* case <-ticker.C: currentMemoryMB := rm.getCurrentMemoryUsage(); the send
\* loop is entered if currentMemoryMB != lastAllocatedMB
PageCtlTick ==
    /\ Alive
    /\ pcMemCtl = "select"
    /\ LET cur == getCurrentMemoryUsage(config, Elapsed)
       IN  /\ ctlTargetMB' = cur
           /\ pcMemCtl' = IF cur # lastAllocatedMB THEN "send" ELSE "select"
    /\ ctlIdx' = 0
    /\ UNCHANGED << now, rampupStart, ctxVars, wg, panicked, mainVars,
                    cleanVars, fileVars, diskVars, totalActualMB, chanVars,
                    memWVars, cpuVars, envVars, procVars, pageVars >>

\* one round of the send loop: select { case memoryChan <- target: case
\* <-rm.ctx.Done(): return }; the send waits for room in the buffer, and
\* after the last one lastAllocatedMB = currentMemoryMB
PageCtlSend ==
    /\ Alive
    /\ pcMemCtl = "send"
    /\ \/ /\ Len(memoryChan) < numCPU * GoroutinesPerCPU
          /\ memoryChan' = Append(memoryChan,
                 WorkerTarget(ctlTargetMB, numCPU * GoroutinesPerCPU, ctlIdx + 1))
          /\ IF ctlIdx + 1 = numCPU * GoroutinesPerCPU
             THEN /\ pcMemCtl' = "select"
                  /\ ctlIdx' = 0
                  /\ lastAllocatedMB' = ctlTargetMB
             ELSE /\ pcMemCtl' = "send"
                  /\ ctlIdx' = ctlIdx + 1
                  /\ lastAllocatedMB' = lastAllocatedMB
          /\ wg' = wg
       \/ /\ ctxDone
          /\ pcMemCtl' = "exited"
          /\ wg' = wg - 1
          /\ UNCHANGED << memoryChan, ctlIdx, lastAllocatedMB >>
    /\ UNCHANGED << now, rampupStart, ctxVars, panicked, mainVars, cleanVars,
                    fileVars, diskVars, ctlTargetMB, totalActualMB, chanVars,
                    memWVars, cpuVars, envVars, procVars, memoryChanClosed,
                    pcPageW, pageTargetMB, memoryPages >>

\* case <-rm.ctx.Done(): return
PageWCancel(i) ==
    /\ Alive
    /\ pcPageW[i] = "select"
    /\ ctxDone
    /\ pcPageW' = [pcPageW EXCEPT ![i] = "exited"]
    /\ wg' = wg - 1
    /\ UNCHANGED << now, rampupStart, ctxVars, panicked, mainVars, cleanVars,
                    fileVars, diskVars, memCtlVars, chanVars, memWVars,
                    cpuVars, envVars, procVars, memoryChan, memoryChanClosed,
                    lastAllocatedMB, pageTargetMB, memoryPages >>

\* case targetMB, ok := <-memoryChan: the oldest buffered target, or !ok
\* once the channel is closed and empty
PageWTarget(i) ==
    /\ Alive
    /\ pcPageW[i] = "select"
    /\ memoryChan # << >> \/ memoryChanClosed
    /\ IF memoryChan # << >>
       THEN /\ pageTargetMB' = [pageTargetMB EXCEPT ![i] = Head(memoryChan)]
            /\ memoryChan' = Tail(memoryChan)
            /\ UNCHANGED << pcPageW, wg >>
       ELSE /\ pcPageW' = [pcPageW EXCEPT ![i] = "exited"]
            /\ wg' = wg - 1
            /\ UNCHANGED << pageTargetMB, memoryChan >>
    /\ UNCHANGED << now, rampupStart, ctxVars, panicked, mainVars, cleanVars,
                    fileVars, diskVars, memCtlVars, chanVars, memWVars,
                    cpuVars, envVars, procVars, memoryChanClosed,
                    lastAllocatedMB, memoryPages >>

\* case <-blockTicker.C: 256 more pages if currentTargetMB > 0 and the pages
\* held make fewer MB than the target
PageWTick(i) ==
    /\ Alive
    /\ pcPageW[i] = "select"
    /\ memoryPages' =
         [memoryPages EXCEPT ![i] =
            IF /\ pageTargetMB[i] > 0
               /\ (memoryPages[i] * PageSize) \div MiB < pageTargetMB[i]
            THEN memoryPages[i] + PagesToAdd
            ELSE memoryPages[i]]
    /\ UNCHANGED << now, rampupStart, ctxVars, wg, panicked, mainVars,
                    cleanVars, fileVars, diskVars, memCtlVars, chanVars,
                    memWVars, cpuVars, envVars, procVars, memoryChan,
                    memoryChanClosed, lastAllocatedMB, pcPageW, pageTargetMB >>

\* runs that outlast the clock, and runs cancelled while the ramp still
\* computes a target of 0 MB
SharedConfigs ==
    [cpu : {0}, mem : 1 .. MaxSharedMB, file : {0}, rampup : RampupTimes,
     duration : {MaxTime + 1}]
    \cup [cpu : {0}, mem : {1}, file : {0}, rampup : {MaxTime + 1},
          duration : {MaxTime - 1}]

InitShared == InitWith(SharedConfigs, {NumCPU})

NextShared ==
    \/ TimePasses
    \/ Start
    \/ PageCtlSpawn
    \/ PageCtlCancel
    \/ PageCtlTick
    \/ PageCtlSend
    \/ \E i \in PageWorkers : PageWCancel(i)
    \/ \E i \in PageWorkers : PageWTarget(i)
    \/ \E i \in PageWorkers : PageWTick(i)

SpecShared == InitShared /\ [][NextShared]_vars

\* the targets the workers on the shared channel hold, added up
PageHeldSum == SumTo(pageTargetMB, numCPU * GoroutinesPerCPU)

\* a round is over: the controller is back at its select with the round
\* recorded, every target sent has been received, and every worker runs
RoundOver ==
    /\ pcMemCtl = "select"
    /\ lastAllocatedMB = ctlTargetMB
    /\ lastAllocatedMB > 0
    /\ memoryChan = << >>
    /\ \A i \in PageWorkers : pcPageW[i] = "select"

\* C31: on the shared channel each round of W targets is consumed one
\* target per worker: once a round is over, the targets the W workers hold
\* add up to the controller's target.
C31_RoundOnePerWorker ==
    RoundOver => PageHeldSum = lastAllocatedMB

====
